---- MODULE Spec2Model ----
(***************************************************************************)
(* Model of scripts/update_syntax_pipeline.py (token taxonomy scanner,     *)
(* precedence scanner, block splicer, main) and of                         *)
(* scripts/check_diagram_drift.py (manifest check / update).               *)
(*                                                                         *)
(* Text is a sequence of atoms.  An atom is a string: NL is a line         *)
(* terminator, SP is one character of horizontal white space, a marker     *)
(* literal is one atom, and any other string is a run of non-blank         *)
(* characters.  Offsets are 0-based as in Python: the character at offset  *)
(* p is text[p + 1], text[:e] is SubSeq(text, 1, e) and text[s:] is        *)
(* SubSeq(text, s + 1, Len(text)).                                         *)
(***************************************************************************)
EXTENDS Integers, Sequences, FiniteSets, TLC

NL == "\n"
SP == " "
X  == "x"

TOKEN_STATS          == "<<TOKEN_STATS>>"
TOKEN_STATS_END      == "<<TOKEN_STATS_END>>"
PRECEDENCE_TABLE     == "<<PRECEDENCE_TABLE>>"
PRECEDENCE_TABLE_END == "<<PRECEDENCE_TABLE_END>>"

None == "None"

\* ------------------------------------------------------------------------
\* Bounds of the model
\* ------------------------------------------------------------------------
MaxDocLines  == 4
MaxReplLines == 2
MaxBodyLines == 4
MaxPrecLines == 4
MaxPumlLines == 5
MaxRuns      == 2
NumContents  == 2

\* ------------------------------------------------------------------------
\* Generic helpers
\* ------------------------------------------------------------------------
SeqsUpTo(S, n) == UNION {[1..k -> S] : k \in 0..n}

RECURSIVE Join(_, _)
\* sep.join(parts) for a sequence of texts
Join(parts, sep) ==
    IF parts = <<>> THEN <<>>
    ELSE IF Len(parts) = 1 THEN parts[1]
    ELSE parts[1] \o <<sep>> \o Join(Tail(parts), sep)

\* \s of the regular expressions: NL and SP are the white space of a text
IsSpace(c) == c \in {NL, SP}

RECURSIVE SplitLines(_)
\* str.splitlines(): a final line terminator opens no further line
SplitLines(t) ==
    IF t = <<>> THEN <<>>
    ELSE IF \E i \in 1..Len(t) : t[i] = NL
         THEN LET i == CHOOSE j \in 1..Len(t) :
                           t[j] = NL /\ \A k \in 1..(j - 1) : t[k] # NL
              IN  <<SubSeq(t, 1, i - 1)>> \o SplitLines(SubSeq(t, i + 1, Len(t)))
         ELSE <<t>>

\* ------------------------------------------------------------------------
\* Lines of the token definition file
\*
\* A source line is a record.  Its "kind" names its shape and the other
\* fields hold the parts the scanners' regular expressions and substring
\* tests look at.  Identifiers and literals are sequences of characters.
\*   enum     pub enum TokenKind {
\*   close    }
\*   comment  // HEADER PHRASE         (header: the pieces of the phrase)
\*   token    #[token("literal")]      (lit: the literal)
\*   variant  Name,                    (name: the identifier)
\*   both     Name, #[token("literal")]   (both patterns match)
\*   other    any other line, e.g. a blank line or #[regex(...)]
\* A line has the field "header" iff the header pattern finds a phrase in
\* it, "lit" iff the token pattern matches it and "name" iff the variant
\* pattern matches at its start.
\* ------------------------------------------------------------------------
EnumLine          == [kind |-> "enum"]
CloseLine         == [kind |-> "close"]
CommentLine(h)    == [kind |-> "comment", header |-> h]
TokenLine(l)      == [kind |-> "token", lit |-> l]
VariantLine(n)    == [kind |-> "variant", name |-> n]
TokenVariantLine(l, n) == [kind |-> "both", lit |-> l, name |-> n]
OtherLine         == [kind |-> "other"]

KwIf  == <<"K", "w", "I", "f">>
Plus  == <<"P", "l", "u", "s">>
LitIf == <<"i", "f">>
LitI  == <<"i">>

\* ord(c) of the characters that occur in literals
Ord == [c \in {"+", "f", "i", "n"} |->
            CASE c = "+" -> 43 [] c = "f" -> 102 [] c = "i" -> 105 [] c = "n" -> 110]

SECTION_KEYS ==
    <<"TRIVIA", "PUNCTUATION", "OPERATORS", "KEYWORDS", "LITERALS", "IDENTIFIERS", "SPECIAL">>

SECTION_MAP ==
    [k \in {SECTION_KEYS[i] : i \in 1..Len(SECTION_KEYS)} |->
        CASE k = "TRIVIA"      -> "Trivia"
          [] k = "PUNCTUATION" -> "Punctuation"
          [] k = "OPERATORS"   -> "Operators"
          [] k = "KEYWORDS"    -> "Keywords"
          [] k = "LITERALS"    -> "Literals"
          [] k = "IDENTIFIERS" -> "Identifiers"
          [] k = "SPECIAL"     -> "Special"]

SectionNames == {SECTION_MAP[k] : k \in DOMAIN SECTION_MAP}

\* re.search(r"pub\s+enum\s+TokenKind", line)
IsEnumDecl(line) == line.kind = "enum"

\* line.strip().startswith("}")
StartsWithBrace(line) == line.kind = "close"

\* re.search(r"//\s*([A-Z_ ]+)", line): the header phrase, as its pieces
HasHeader(line) == "header" \in DOMAIN line

\* key in header
KeyInHeader(key, header) == \E i \in 1..Len(header) : header[i] = key

\* the section a header phrase selects: the value of the first key of
\* SECTION_MAP, in its order, that occurs in the phrase; None if none does
HeaderSection(header) ==
    LET hits == {i \in 1..Len(SECTION_KEYS) : KeyInHeader(SECTION_KEYS[i], header)}
    IN  IF hits = {} THEN None
        ELSE SECTION_MAP[SECTION_KEYS[CHOOSE i \in hits : \A j \in hits : i <= j]]

\* re.search(r"#\[token\(\"([^\"]+)\"", line)
HasToken(line) == "lit" \in DOMAIN line

\* re.match(r"\s*([A-Za-z][A-Za-z0-9_]*)\s*(,|=)", line)
HasVariant(line) == "name" \in DOMAIN line

StartsWith(s, prefix) ==
    Len(s) >= Len(prefix) /\ SubSeq(s, 1, Len(prefix)) = prefix

KwPrefix == <<"K", "w">>

\* ------------------------------------------------------------------------
\* parse_tokenkind
\* ------------------------------------------------------------------------
\* pending_literal = None; the code tests it by truth value, which is also
\* false for the empty string (no literal is empty: the pattern needs [^"]+)
NoLiteral == <<>>

\* the locals of parse_tokenkind before the first line; variant_to_literal
\* is a function from identifiers to literals, keyword_literals a sequence
TkStart ==
    [in_enum          |-> FALSE,
     section          |-> None,
     by_section       |-> [n \in SectionNames |-> 0],
     total            |-> 0,
     pending_literal  |-> NoLiteral,
     variant_to_literal |-> <<>>,
     keyword_literals |-> <<>>,
     broke            |-> FALSE]

\* dict assignment d[k] = v
DictSet(d, k, v) == [x \in (DOMAIN d) \cup {k} |-> IF x = k THEN v ELSE d[x]]

\* TkVariant with total += 1 moved under "if section:"
TkVariantTotalInSection(st, name) ==
    LET counted == IF st.section # None
                   THEN [st EXCEPT !.total = @ + 1,
                                   !.by_section = [@ EXCEPT ![st.section] = @ + 1]]
                   ELSE st
    IN  IF st.pending_literal # NoLiteral
        THEN [counted EXCEPT
                !.variant_to_literal = DictSet(@, name, st.pending_literal),
                !.keyword_literals = IF StartsWith(name, KwPrefix)
                                     THEN Append(@, st.pending_literal)
                                     ELSE @,
                !.pending_literal = NoLiteral]
        ELSE counted

\* TkVariant without pending_literal = None after the literal is attached
TkVariantKeepsPending(st, name) ==
    LET counted == [st EXCEPT
                      !.total = @ + 1,
                      !.by_section = IF st.section # None
                                     THEN [@ EXCEPT ![st.section] = @ + 1]
                                     ELSE @]
    IN  IF st.pending_literal # NoLiteral
        THEN [counted EXCEPT
                !.variant_to_literal = DictSet(@, name, st.pending_literal),
                !.keyword_literals = IF StartsWith(name, KwPrefix)
                                     THEN Append(@, st.pending_literal)
                                     ELSE @]
        ELSE counted

\* the body of lines 64-75 for a line that matches the variant pattern
TkVariant(st, name) ==
    LET counted == [st EXCEPT
                      !.total = @ + 1,
                      !.by_section = IF st.section # None
                                     THEN [@ EXCEPT ![st.section] = @ + 1]
                                     ELSE @]
    IN  IF st.pending_literal # NoLiteral
        THEN [counted EXCEPT
                !.variant_to_literal = DictSet(@, name, st.pending_literal),
                !.keyword_literals = IF StartsWith(name, KwPrefix)
                                     THEN Append(@, st.pending_literal)
                                     ELSE @,
                !.pending_literal = NoLiteral]
        ELSE counted

\* TkStep in which every header comment sets the section, to None when it
\* contains no section keyword
TkStepHeaderResets(st, line) ==
    IF ~st.in_enum
    THEN IF IsEnumDecl(line) THEN [st EXCEPT !.in_enum = TRUE] ELSE st
    ELSE IF StartsWithBrace(line)
    THEN [st EXCEPT !.broke = TRUE]
    ELSE LET s1 == IF HasHeader(line)
                   THEN [st EXCEPT !.section = HeaderSection(line.header)]
                   ELSE st
         IN  IF HasToken(line)
             THEN [s1 EXCEPT !.pending_literal = line.lit]
             ELSE IF HasVariant(line)
             THEN TkVariant(s1, line.name)
             ELSE s1

\* TkStep without the break at the closing brace
TkStepNoBreak(st, line) ==
    IF ~st.in_enum
    THEN IF IsEnumDecl(line) THEN [st EXCEPT !.in_enum = TRUE] ELSE st
    ELSE IF StartsWithBrace(line)
    THEN st
    ELSE LET s1 == IF HasHeader(line) /\ HeaderSection(line.header) # None
                   THEN [st EXCEPT !.section = HeaderSection(line.header)]
                   ELSE st
         IN  IF HasToken(line)
             THEN [s1 EXCEPT !.pending_literal = line.lit]
             ELSE IF HasVariant(line)
             THEN TkVariant(s1, line.name)
             ELSE s1

\* one iteration of the for loop over the lines (lines 43-75)
TkStep(st, line) ==
    IF ~st.in_enum
    THEN IF IsEnumDecl(line) THEN [st EXCEPT !.in_enum = TRUE] ELSE st
    ELSE IF StartsWithBrace(line)
    THEN [st EXCEPT !.broke = TRUE]
    ELSE LET s1 == IF HasHeader(line) /\ HeaderSection(line.header) # None
                   THEN [st EXCEPT !.section = HeaderSection(line.header)]
                   ELSE st
         IN  IF HasToken(line)
             THEN [s1 EXCEPT !.pending_literal = line.lit]
             ELSE IF HasVariant(line)
             THEN TkVariant(s1, line.name)
             ELSE s1

\* a < b for strings: lexicographic by code point
RECURSIVE StrLess(_, _)
StrLess(a, b) ==
    IF b = <<>> THEN FALSE
    ELSE IF a = <<>> THEN TRUE
    ELSE IF Ord[a[1]] # Ord[b[1]] THEN Ord[a[1]] < Ord[b[1]]
    ELSE StrLess(Tail(a), Tail(b))

RECURSIVE SortedStrings(_)
\* sorted(S) for a set of strings
SortedStrings(S) ==
    IF S = {} THEN <<>>
    ELSE LET m == CHOOSE x \in S : \A y \in S \ {x} : StrLess(x, y)
         IN  <<m>> \o SortedStrings(S \ {m})

\* Keywords without sorted(set(...)): the literals as they were appended
KeywordsAsAppended(keyword_literals) == keyword_literals

\* keywords = sorted(set(keyword_literals))
Keywords(keyword_literals) ==
    SortedStrings({keyword_literals[i] : i \in 1..Len(keyword_literals)})

\* the TokenStats value returned on line 78
TokenStats(st) ==
    [total              |-> st.total,
     by_section         |-> st.by_section,
     keywords           |-> Keywords(st.keyword_literals),
     variant_to_literal |-> st.variant_to_literal]

RECURSIVE TkLoop(_, _)
TkLoop(st, lines) ==
    IF lines = <<>> \/ st.broke THEN st
    ELSE TkLoop(TkStep(st, Head(lines)), Tail(lines))

parse_tokenkind(lines) == TokenStats(TkLoop(TkStart, lines))

\* ------------------------------------------------------------------------
\* Lines of the two binding-power functions
\*   fn_infix   fn infix_binding_power(...)
\*   fn_prefix  fn prefix_binding_power(...)
\*   arm        Self::A | Self::B => rhs,
\*              alts: the alternatives left of "=>", each with its name and
\*              whether it carries the Self:: qualifier; rhs: what follows
\*              "=>": "pair" (a, b)   "int" a   "other" anything else
\* ------------------------------------------------------------------------
FnInfixLine        == [kind |-> "fn_infix"]
FnPrefixLine       == [kind |-> "fn_prefix"]
ArmLine(alts, rhs) == [kind |-> "arm", alts |-> alts, rhs |-> rhs]
Alt(name)          == [q |-> TRUE, name |-> name]
Bare(name)         == [q |-> FALSE, name |-> name]
PairRhs(a, b)      == [form |-> "pair", a |-> a, b |-> b]
IntRhs(a)          == [form |-> "int", a |-> a, b |-> 0]
OtherRhs           == [form |-> "other", a |-> 0, b |-> 0]

Minus  == <<"M", "i", "n", "u", "s">>
Assign == <<"A", "s", "s", "i", "g", "n">>
KwOr   == <<"K", "w", "O", "r">>
KwNot  == <<"K", "w", "N", "o", "t">>
Wild   == <<"_">>
Raw_   == <<"R", "a", "w", "_">>
LitPlus == <<"+">>
LitOr  == <<"o", "r">>

\* "fn infix_binding_power" in line
HasInfixFn(line) == line.kind = "fn_infix"

\* "fn prefix_binding_power" in line
HasPrefixFn(line) == line.kind = "fn_prefix"

\* "=>" in line
HasArrow(line) == line.kind = "arm"

\* "_ =>" in line: the text left of the arrow ends with an underscore
HasWildArrow(line) ==
    /\ line.kind = "arm"
    /\ line.alts # <<>>
    /\ line.alts[Len(line.alts)].name # <<>>
    /\ LET n == line.alts[Len(line.alts)].name IN n[Len(n)] = "_"

\* re.search(r"\((\d+),\s*(\d+)\)", line)
HasPair(line) == line.kind = "arm" /\ line.rhs.form = "pair"

\* re.search(r"=>\s*(\d+)", line)
HasIntAfterArrow(line) == line.kind = "arm" /\ line.rhs.form = "int"

\* lines 107-109: the names left of the arrow, split on "|", stripped,
\* empty pieces dropped, the qualifier Self:: removed
ArmNames(line) ==
    LET kept == SelectSeq(line.alts, LAMBDA t : t.q \/ t.name # <<>>)
    IN  [i \in 1..Len(kept) |-> kept[i].name]

\* ------------------------------------------------------------------------
\* parse_binding_powers
\* ------------------------------------------------------------------------
BpStart ==
    [in_infix       |-> FALSE,
     in_prefix      |-> FALSE,
     infix_entries  |-> <<>>,
     prefix_entries |-> <<>>]

\* BpStep recording one entry for each name of the alternation
BpStepEntryPerName(st, line) ==
    IF HasInfixFn(line) THEN [st EXCEPT !.in_infix = TRUE]
    ELSE IF HasPrefixFn(line) THEN [st EXCEPT !.in_infix = FALSE, !.in_prefix = TRUE]
    ELSE IF st.in_infix
    THEN IF ~HasArrow(line) THEN st
         ELSE IF HasWildArrow(line) THEN st
         ELSE IF ~HasPair(line) THEN st
         ELSE [st EXCEPT !.infix_entries =
                   @ \o [j \in 1..Len(ArmNames(line)) |->
                            <<line.rhs.a, line.rhs.b, <<ArmNames(line)[j]>> >>]]
    ELSE IF st.in_prefix
    THEN IF ~HasArrow(line) THEN st
         ELSE IF HasWildArrow(line) THEN st
         ELSE IF ~HasIntAfterArrow(line) THEN st
         ELSE [st EXCEPT !.prefix_entries =
                   @ \o [j \in 1..Len(ArmNames(line)) |->
                            <<line.rhs.a, <<ArmNames(line)[j]>> >>]]
    ELSE st

\* one iteration of the for loop over the lines (lines 89-124)
BpStep(st, line) ==
    IF HasInfixFn(line) THEN [st EXCEPT !.in_infix = TRUE]
    ELSE IF HasPrefixFn(line) THEN [st EXCEPT !.in_infix = FALSE, !.in_prefix = TRUE]
    ELSE IF st.in_infix
    THEN IF ~HasArrow(line) THEN st
         ELSE IF HasWildArrow(line) THEN st
         ELSE IF ~HasPair(line) THEN st
         ELSE [st EXCEPT !.infix_entries =
                   Append(@, <<line.rhs.a, line.rhs.b, ArmNames(line)>>)]
    ELSE IF st.in_prefix
    THEN IF ~HasArrow(line) THEN st
         ELSE IF HasWildArrow(line) THEN st
         ELSE IF ~HasIntAfterArrow(line) THEN st
         ELSE [st EXCEPT !.prefix_entries = Append(@, <<line.rhs.a, ArmNames(line)>>)]
    ELSE st

RECURSIVE BpLoop(_, _)
BpLoop(st, lines) ==
    IF lines = <<>> THEN st ELSE BpLoop(BpStep(st, Head(lines)), Tail(lines))

\* str.upper() on the letters that occur in identifiers
UpperChar(c) ==
    CASE c = "a" -> "A" [] c = "f" -> "F" [] c = "g" -> "G" [] c = "i" -> "I"
      [] c = "l" -> "L" [] c = "n" -> "N" [] c = "o" -> "O" [] c = "r" -> "R"
      [] c = "s" -> "S" [] c = "t" -> "T" [] c = "u" -> "U" [] c = "w" -> "W"
      [] OTHER -> c

Upper(str) == [i \in 1..Len(str) |-> UpperChar(str[i])]

\* display with the Kw test made before the lookup in the literal map
displayKwFirst(variant_to_literal, name) ==
    IF StartsWith(name, KwPrefix) THEN Upper(SubSeq(name, 3, Len(name)))
    ELSE IF name \in DOMAIN variant_to_literal THEN variant_to_literal[name]
    ELSE name

\* display(name), lines 126-131
display(variant_to_literal, name) ==
    IF name \in DOMAIN variant_to_literal THEN variant_to_literal[name]
    ELSE IF StartsWith(name, KwPrefix) THEN Upper(SubSeq(name, 3, Len(name)))
    ELSE name

\* ", ".join(display(name) for name in names)
JoinLabels(variant_to_literal, names) ==
    Join([i \in 1..Len(names) |-> display(variant_to_literal, names[i])], ", ")

RightAssoc == " (right assoc)"

\* the suffix with the comparison turned around
SuffixWhenLess(l_bp, r_bp) == IF l_bp < r_bp THEN <<RightAssoc>> ELSE <<>>

\* line 137
Suffix(l_bp, r_bp) == IF l_bp > r_bp THEN <<RightAssoc>> ELSE <<>>

\* line 138: f"{l_bp}-{r_bp}:   {tokens}{suffix}", as a sequence of atoms
RenderInfix(variant_to_literal, e) ==
    <<ToString(e[1]), "-", ToString(e[2]), ":   ">>
        \o JoinLabels(variant_to_literal, e[3]) \o Suffix(e[1], e[2])

\* line 143: f"{bp}:    prefix {tokens}"
RenderPrefix(variant_to_literal, e) ==
    <<ToString(e[1]), ":    prefix ">> \o JoinLabels(variant_to_literal, e[2])

\* the place of a new entry in a list sorted by its first component: after
\* every entry whose key is not larger
InsertByLeft(sorted, e) ==
    LET n == Cardinality({i \in 1..Len(sorted) : sorted[i][1] <= e[1]})
    IN  SubSeq(sorted, 1, n) \o <<e>> \o SubSeq(sorted, n + 1, Len(sorted))

RECURSIVE SortFrom(_, _)
SortFrom(sorted, rest) ==
    IF rest = <<>> THEN sorted
    ELSE SortFrom(InsertByLeft(sorted, Head(rest)), Tail(rest))

\* the entries left in scan order
UnsortedEntries(entries) == entries

\* line 134: infix_entries.sort(key=lambda item: item[0]), a stable sort
SortByLeft(entries) == SortFrom(<<>>, entries)

\* the line "Precedence (low -> high):", whose arrow is U+2192 in the source
PrecedenceHeader == <<"Precedence (low -> high):">>

\* lines 133-138
InfixLines(variant_to_literal, sorted_entries) ==
    <<PrecedenceHeader>>
        \o [i \in 1..Len(sorted_entries) |-> RenderInfix(variant_to_literal, sorted_entries[i])]

\* lines 140-143
PrefixLines(variant_to_literal, entries) ==
    [i \in 1..Len(entries) |-> RenderPrefix(variant_to_literal, entries[i])]

\* main, line 192: precedence_lines = infix + prefix
PrecedenceLines(infix, prefix) == infix \o prefix

\* the pair (infix_lines, prefix_lines) returned on line 145
parse_binding_powers(lines, variant_to_literal) ==
    LET st == BpLoop(BpStart, lines)
    IN  [infix  |-> InfixLines(variant_to_literal, SortByLeft(st.infix_entries)),
         prefix |-> PrefixLines(variant_to_literal, st.prefix_entries)]

\* ------------------------------------------------------------------------
\* replace_block
\* ------------------------------------------------------------------------
\* number of consecutive white-space characters from offset p on
WsRun(text, p) ==
    LET stops == {q \in p..Len(text) : q = Len(text) \/ ~IsSpace(text[q + 1])}
    IN  (CHOOSE q \in stops : \A r \in stops : q <= r) - p

\* (?m)^ matches at offset 0 and right after every line terminator
AtLineStart(text, p) == p = 0 \/ text[p] = NL

\* (?m)$ matches at the end of the text and right before a line terminator
AtLineEnd(text, e) == e = Len(text) \/ text[e + 1] = NL

\* the offsets at which the greedy trailing \s*$ of the pattern can stop
\* when the marker literal ends at offset m
TrailStops(text, m) == {e \in m..(m + WsRun(text, m)) : AtLineEnd(text, e)}

\* the pattern (?m)^(?P<indent>\s*)marker\s*$ matches from offset p
MatchesAt(text, marker, p) ==
    /\ AtLineStart(text, p)
    /\ p + WsRun(text, p) < Len(text)
    /\ text[p + WsRun(text, p) + 1] = marker
    /\ TrailStops(text, p + WsRun(text, p) + 1) # {}

NoMatch == [found |-> FALSE, start |-> 0, end |-> 0, indent |-> <<>>]

\* pattern.search(text): the leftmost match; the greedy quantifiers take the
\* longest leading white space (line terminators included) and the longest
\* trailing white space after which $ still matches
MarkerSearch(text, marker) ==
    LET hits == {p \in 0..Len(text) : MatchesAt(text, marker, p)}
    IN  IF hits = {} THEN NoMatch
        ELSE LET p == CHOOSE h \in hits : \A g \in hits : h <= g
                 w == WsRun(text, p)
                 m == p + w + 1
                 stops == TrailStops(text, m)
             IN  [found  |-> TRUE,
                  start  |-> p,
                  end    |-> CHOOSE e \in stops : \A f \in stops : f <= e,
                  indent |-> SubSeq(text, p + 1, p + w)]

ReindentLine(indent, line) == IF line # <<>> THEN indent \o line ELSE indent

Reindent(indent, replacement) ==
    LET ls == SplitLines(replacement)
    IN  Join([i \in 1..Len(ls) |-> ReindentLine(indent, ls[i])], NL)

Failure(msg) == [ok |-> FALSE, err |-> msg, text |-> <<>>]
Success(t)   == [ok |-> TRUE, err |-> None, text |-> t]

ErrStart == "start marker not found"
ErrEnd   == "end marker not found"
ErrOrder == "marker order invalid"

replace_block(text, start_marker, end_marker, replacement) ==
    LET start_match == MarkerSearch(text, start_marker)
        end_match   == MarkerSearch(text, end_marker)
    IN  IF ~start_match.found THEN Failure(ErrStart)
        ELSE IF ~end_match.found THEN Failure(ErrEnd)
        ELSE IF end_match.start <= start_match.end THEN Failure(ErrOrder)
        ELSE Success(SubSeq(text, 1, start_match.end)
                     \o <<NL>>
                     \o Reindent(start_match.indent, replacement)
                     \o <<NL>>
                     \o SubSeq(text, end_match.start + 1, Len(text)))

\* ------------------------------------------------------------------------
\* main
\* ------------------------------------------------------------------------
\* a file of the working tree: present with its content, or absent
FileOf(content) == [exists |-> TRUE, text |-> content]
NoFile          == [exists |-> FALSE, text |-> <<>>]

ErrNoFile == "FileNotFoundError"
ErrWrite  == "OSError"

\* lines 178-190; the bullet U+2022 of the source is written "*"
TokenLinesOf(stats) ==
    << <<"TokenKind variants: ", ToString(stats.total)>>,
       <<"Sections:">>,
       <<"* Trivia: ", ToString(stats.by_section["Trivia"])>>,
       <<"* Punctuation: ", ToString(stats.by_section["Punctuation"])>>,
       <<"* Operators: ", ToString(stats.by_section["Operators"])>>,
       <<"* Keywords: ", ToString(stats.by_section["Keywords"])>>,
       <<"* Literals: ", ToString(stats.by_section["Literals"])>>,
       <<"* Identifiers: ", ToString(stats.by_section["Identifiers"])>>,
       <<"* Special: ", ToString(stats.by_section["Special"])>>,
       <<>>,
       <<"Keywords (", ToString(Len(stats.keywords)),
         ") in docs/diagrams/generated/syntax-stats.md">> >>

\* the text written to OUTPUT, lines 210-233
ReportText(stats, precedence_lines) ==
    Join(<< <<"# Syntax Stats">>,
            <<>>,
            <<"- TokenKind variants: ", ToString(stats.total)>>,
            <<"- Section counts:">>,
            <<"  - Trivia: ", ToString(stats.by_section["Trivia"])>>,
            <<"  - Punctuation: ", ToString(stats.by_section["Punctuation"])>>,
            <<"  - Operators: ", ToString(stats.by_section["Operators"])>>,
            <<"  - Keywords: ", ToString(stats.by_section["Keywords"])>>,
            <<"  - Literals: ", ToString(stats.by_section["Literals"])>>,
            <<"  - Identifiers: ", ToString(stats.by_section["Identifiers"])>>,
            <<"  - Special: ", ToString(stats.by_section["Special"])>>,
            <<>>,
            <<"- Keywords (", ToString(Len(stats.keywords)), "):">>,
            <<"  ">> \o Join(stats.keywords, ", "),
            <<>>,
            <<"- Pratt precedence:">> >>
         \o [i \in 1..Len(precedence_lines) |-> <<"  ">> \o precedence_lines[i]],
         NL)
    \o <<NL>>

\* the value of stats before parse_tokenkind has returned
NoStats == TokenStats(TkStart)

\* ------------------------------------------------------------------------
\* check_diagram_drift.py
\* ------------------------------------------------------------------------
\* the diagram files docs/**/*.puml that may exist, and their sort order
DiagramPaths == {"docs/a.puml", "docs/diagrams/syntax/syntax-pipeline.puml"}

PathRank == [p \in DiagramPaths |-> IF p = "docs/a.puml" THEN 1 ELSE 2]

\* the contents a diagram file may have
Contents == 1..NumContents

\* sha256(path): the digest of the content of a file; distinct contents
\* have distinct digests
sha256(content) == "sha256:" \o ToString(content)

\* compute_manifest(root), for the diagram files given as path -> content
compute_manifest(diagrams) == [p \in DOMAIN diagrams |-> sha256(diagrams[p])]

RECURSIVE SortedPaths(_)
SortedPaths(S) ==
    IF S = {} THEN <<>>
    ELSE LET m == CHOOSE x \in S : \A y \in S : PathRank[x] <= PathRank[y]
         IN  <<m>> \o SortedPaths(S \ {m})

\* json.dumps(manifest, indent=2, sort_keys=True): the members of the JSON
\* object, as key/value pairs in key order
JsonDumps(manifest) ==
    LET keys == SortedPaths(DOMAIN manifest)
    IN  [i \in 1..Len(keys) |-> <<keys[i], manifest[keys[i]]>>]

\* json.loads(text): the dict of the members
JsonLoads(members) ==
    [k \in {members[i][1] : i \in 1..Len(members)} |->
        (CHOOSE m \in {members[i] : i \in 1..Len(members)} : m[1] = k)[2]]

\* the check that looks at the file names only
CheckCodeKeysOnly(manifest, current) ==
    IF ~manifest.exists THEN 1
    ELSE IF DOMAIN JsonLoads(manifest.text) # DOMAIN current THEN 1
    ELSE 0

\* the exit status of check mode, lines 38-57
CheckCode(manifest, current) ==
    IF ~manifest.exists THEN 1
    ELSE IF JsonLoads(manifest.text) # current THEN 1
    ELSE 0

\* the mode and exit status of a run of the checker
RanCheck(code) == [ran |-> TRUE, update |-> FALSE, code |-> code]
RanUpdate      == [ran |-> TRUE, update |-> TRUE, code |-> 0]
NoRun          == [ran |-> FALSE, update |-> FALSE, code |-> 0]

\* ------------------------------------------------------------------------
\* State
\* ------------------------------------------------------------------------
VARIABLES
    tk_lines,         \* parse_tokenkind: the lines of the token definition file
    tk_i,             \* parse_tokenkind: number of lines the loop has taken
    tk,               \* parse_tokenkind: its locals
    tk_pc,            \* parse_tokenkind: "scan" in the loop, "returned" after
    tk_stats,         \* parse_tokenkind: the returned TokenStats, None before
    bp_lines,         \* parse_binding_powers: the lines of the file
    bp_v2l,           \* parse_binding_powers: its argument variant_to_literal
    bp_i,             \* parse_binding_powers: number of lines the loop has taken
    bp,               \* parse_binding_powers: its locals
    bp_pc,            \* parse_binding_powers: "scan" in the loop, "returned" after
    infix_lines,      \* parse_binding_powers: the returned infix lines
    prefix_lines,     \* parse_binding_powers: the returned prefix lines
    rb_text,          \* replace_block: the document text given to it
    rb_replacement,   \* replace_block: the replacement text
    rb_out,           \* replace_block: results of the successive applications
    tokens_file,      \* the file TOKENS (its text is a sequence of lines)
    puml_file,        \* the file PUML
    output_file,      \* the file OUTPUT
    main_pc,          \* main: where the run is
    main_err,         \* main: the error the run ended with, None if none
    stats,            \* main: local stats
    token_lines,      \* main: local token_lines
    precedence_lines, \* main: local precedence_lines
    puml_text,        \* main: local puml_text
    runs,             \* number of runs of main that completed
    written,          \* history: the files the run has written so far, in order
    diagrams,         \* drift checker: the diagram files, path -> content
    manifest_file,    \* drift checker: the file docs/diagrams/manifest.json
    drift_last,       \* drift checker: mode and exit status of the run that
                      \* has just ended; NoRun once a diagram file changes
    regenerated       \* history: a regeneration has changed a diagram's
                      \* content since the last run in update mode

rbVars == <<rb_text, rb_replacement, rb_out>>

tkVars == <<tk_lines, tk_i, tk, tk_pc, tk_stats>>

bpVars == <<bp_lines, bp_v2l, bp_i, bp, bp_pc, infix_lines, prefix_lines>>

mainVars == <<tokens_file, puml_file, output_file, main_pc, main_err, stats,
              token_lines, precedence_lines, puml_text, runs, written>>

driftVars == <<diagrams, manifest_file, drift_last, regenerated>>

vars == <<tkVars, bpVars, rbVars, mainVars, driftVars>>

\* the variables of the other components
notTk    == <<bpVars, rbVars, mainVars, driftVars>>
notBp    == <<tkVars, rbVars, mainVars, driftVars>>
notRb    == <<tkVars, bpVars, mainVars, driftVars>>
notMain  == <<tkVars, bpVars, rbVars, driftVars>>
notDrift == <<tkVars, bpVars, rbVars, mainVars>>

\* Each component is checked in a specification of its own, in which the
\* variables of the other components keep these values.
tkIdle ==
    /\ tk_lines = <<>>
    /\ tk_i = 0
    /\ tk = TkStart
    /\ tk_pc = "scan"
    /\ tk_stats = None

bpIdle ==
    /\ bp_lines = <<>>
    /\ bp_v2l = <<>>
    /\ bp_i = 0
    /\ bp = BpStart
    /\ bp_pc = "scan"
    /\ infix_lines = <<>>
    /\ prefix_lines = <<>>

rbIdle ==
    /\ rb_text = <<>>
    /\ rb_replacement = <<>>
    /\ rb_out = <<>>

mainIdle ==
    /\ tokens_file = NoFile
    /\ puml_file = NoFile
    /\ output_file = NoFile
    /\ main_pc = "start"
    /\ main_err = None
    /\ stats = NoStats
    /\ token_lines = <<>>
    /\ precedence_lines = <<>>
    /\ puml_text = <<>>
    /\ runs = 0
    /\ written = <<>>

driftIdle ==
    /\ diagrams = <<>>
    /\ manifest_file = NoFile
    /\ drift_last = NoRun
    /\ regenerated = FALSE

\* ------------------------------------------------------------------------
\* Token taxonomy scanner on its own
\* ------------------------------------------------------------------------
\* the lines the body of the enumeration is drawn from
TkBodyLines ==
    { CommentLine(<<"KEYWORDS">>), CommentLine(<<"TRIVIA">>), CommentLine(<<"NOTE">>),
      TokenLine(LitIf), TokenVariantLine(LitI, Plus),
      VariantLine(KwIf), VariantLine(Plus) }

\* what precedes the declaration of the enumeration
TkPreambles == { <<>>, <<CloseLine, TokenLine(LitI), VariantLine(Plus)>> }

\* what follows the body
TkTrailers == { <<>>, <<CloseLine>>, <<CloseLine, EnumLine, VariantLine(KwIf)>> }

TkFiles ==
    {pre \o <<EnumLine>> \o body \o post :
        pre \in TkPreambles, body \in SeqsUpTo(TkBodyLines, MaxBodyLines), post \in TkTrailers}

TkInit ==
    /\ tk_lines \in TkFiles
    /\ tk_i = 0
    /\ tk = TkStart
    /\ tk_pc = "scan"
    /\ tk_stats = None
    /\ bpIdle
    /\ rbIdle
    /\ mainIdle
    /\ driftIdle

\* the loop takes its next line
TkScanLine ==
    /\ tk_pc = "scan"
    /\ ~tk.broke
    /\ tk_i < Len(tk_lines)
    /\ tk' = TkStep(tk, tk_lines[tk_i + 1])
    /\ tk_i' = tk_i + 1
    /\ UNCHANGED <<tk_lines, tk_pc, tk_stats>>
    /\ UNCHANGED notTk

\* the loop is over (break, or no line left): lines 77-78
TkReturn ==
    /\ tk_pc = "scan"
    /\ tk.broke \/ tk_i = Len(tk_lines)
    /\ tk_pc' = "returned"
    /\ tk_stats' = TokenStats(tk)
    /\ UNCHANGED <<tk_lines, tk_i, tk>>
    /\ UNCHANGED notTk

TkNext == TkScanLine \/ TkReturn

SpecTok == TkInit /\ [][TkNext]_vars

\* ------------------------------------------------------------------------
\* Precedence table scanner on its own
\* ------------------------------------------------------------------------
\* the lines a file is drawn from
BpFileLines ==
    { FnInfixLine, FnPrefixLine,
      ArmLine(<<Alt(Plus), Alt(Minus)>>, PairRhs(2, 3)),
      ArmLine(<<Alt(KwOr)>>, PairRhs(1, 1)),
      ArmLine(<<Alt(Assign)>>, PairRhs(2, 1)),
      ArmLine(<<Bare(Wild)>>, PairRhs(0, 0)),
      ArmLine(<<Bare(Wild)>>, IntRhs(0)),
      ArmLine(<<Alt(Raw_)>>, PairRhs(5, 6)),
      ArmLine(<<Alt(Minus), Alt(KwNot)>>, IntRhs(4)) }

BpFiles == SeqsUpTo(BpFileLines, MaxPrecLines)

\* the literal maps the scanner is called with
BpLiteralMaps ==
    { <<>>, [n \in {Plus, KwOr} |-> IF n = Plus THEN LitPlus ELSE LitOr] }

BpInit ==
    /\ bp_lines \in BpFiles
    /\ bp_v2l \in BpLiteralMaps
    /\ bp_i = 0
    /\ bp = BpStart
    /\ bp_pc = "scan"
    /\ infix_lines = <<>>
    /\ prefix_lines = <<>>
    /\ tkIdle
    /\ rbIdle
    /\ mainIdle
    /\ driftIdle

\* the loop takes its next line
BpScanLine ==
    /\ bp_pc = "scan"
    /\ bp_i < Len(bp_lines)
    /\ bp' = BpStep(bp, bp_lines[bp_i + 1])
    /\ bp_i' = bp_i + 1
    /\ UNCHANGED <<bp_lines, bp_v2l, bp_pc, infix_lines, prefix_lines>>
    /\ UNCHANGED notBp

\* the loop is over: the entries are sorted in place and rendered,
\* lines 133-145
BpRender ==
    /\ bp_pc = "scan"
    /\ bp_i = Len(bp_lines)
    /\ bp' = [bp EXCEPT !.infix_entries = SortByLeft(@)]
    /\ infix_lines' = InfixLines(bp_v2l, bp'.infix_entries)
    /\ prefix_lines' = PrefixLines(bp_v2l, bp.prefix_entries)
    /\ bp_pc' = "returned"
    /\ UNCHANGED <<bp_lines, bp_v2l, bp_i>>
    /\ UNCHANGED notBp

BpNext == BpScanLine \/ BpRender

SpecPrec == BpInit /\ [][BpNext]_vars

\* ------------------------------------------------------------------------
\* Block splicer on its own: replace_block applied to a document, then
\* applied again to its own output with the same markers and replacement
\* ------------------------------------------------------------------------
\* the lines a document is drawn from
SpliceDocLines ==
    { <<>>, <<X>>,
      <<TOKEN_STATS>>, <<SP, TOKEN_STATS>>,
      <<TOKEN_STATS_END>>, <<SP, TOKEN_STATS_END, SP>> }

SpliceDocs == {Join(ls, NL) : ls \in SeqsUpTo(SpliceDocLines, MaxDocLines)}

SpliceReplLines == { <<>>, <<X>> }

SpliceRepls == {Join(ls, NL) : ls \in SeqsUpTo(SpliceReplLines, MaxReplLines)}

SpliceInit ==
    /\ rb_text \in SpliceDocs
    /\ rb_replacement \in SpliceRepls
    /\ rb_out = <<>>
    /\ tkIdle
    /\ bpIdle
    /\ mainIdle
    /\ driftIdle

SpliceFirst ==
    /\ rb_out = <<>>
    /\ rb_out' = <<replace_block(rb_text, TOKEN_STATS, TOKEN_STATS_END, rb_replacement)>>
    /\ UNCHANGED <<rb_text, rb_replacement>>
    /\ UNCHANGED notRb

SpliceAgain ==
    /\ Len(rb_out) = 1
    /\ rb_out[1].ok
    /\ rb_out' = Append(rb_out, replace_block(rb_out[1].text, TOKEN_STATS,
                                              TOKEN_STATS_END, rb_replacement))
    /\ UNCHANGED <<rb_text, rb_replacement>>
    /\ UNCHANGED notRb

SpliceNext == SpliceFirst \/ SpliceAgain

SpecSplice == SpliceInit /\ [][SpliceNext]_vars

\* ------------------------------------------------------------------------
\* Runs of main
\* ------------------------------------------------------------------------
\* the token definition files a run is given
SourceKeywords ==
    << EnumLine,
       CommentLine(<<"KEYWORDS">>), TokenLine(LitIf), VariantLine(KwIf),
       CloseLine,
       FnInfixLine,
       ArmLine(<<Alt(Plus), Alt(Minus)>>, PairRhs(2, 3)),
       ArmLine(<<Bare(Wild)>>, OtherRhs),
       FnPrefixLine,
       ArmLine(<<Alt(Minus), Alt(KwNot)>>, IntRhs(4)) >>

SourceBare == << EnumLine, VariantLine(Plus), CloseLine >>

MainSources == { FileOf(SourceKeywords), FileOf(SourceBare), NoFile }

\* the lines a diagram document is drawn from
PumlLines ==
    { <<>>, <<X>>,
      <<TOKEN_STATS>>, <<TOKEN_STATS_END>>,
      <<SP, PRECEDENCE_TABLE>>, <<SP, PRECEDENCE_TABLE_END>> }

PumlFiles ==
    {FileOf(Join(ls, NL)) : ls \in SeqsUpTo(PumlLines, MaxPumlLines)} \cup {NoFile}

MainInit ==
    /\ tokens_file \in MainSources
    /\ puml_file \in IF tokens_file.exists THEN PumlFiles ELSE {NoFile}
    /\ output_file = NoFile
    /\ main_pc = "start"
    /\ main_err = None
    /\ stats = NoStats
    /\ token_lines = <<>>
    /\ precedence_lines = <<>>
    /\ puml_text = <<>>
    /\ runs = 0
    /\ written = <<>>
    /\ tkIdle
    /\ bpIdle
    /\ rbIdle
    /\ driftIdle

\* lines 175-192: both scanners read TOKENS, the lines are rendered
MainScan ==
    /\ main_pc = "start"
    /\ IF tokens_file.exists
       THEN LET st == parse_tokenkind(tokens_file.text)
                bpr == parse_binding_powers(tokens_file.text, st.variant_to_literal)
            IN  /\ stats' = st
                /\ token_lines' = TokenLinesOf(st)
                /\ precedence_lines' = PrecedenceLines(bpr.infix, bpr.prefix)
                /\ main_pc' = "scanned"
                /\ UNCHANGED main_err
       ELSE /\ main_pc' = "failed"
            /\ main_err' = ErrNoFile
            /\ UNCHANGED <<stats, token_lines, precedence_lines>>
    /\ UNCHANGED <<tokens_file, puml_file, output_file, puml_text, runs, written>>
    /\ UNCHANGED notMain

\* MainSpliceTokenStats with PUML written back right after the first splice
MainSpliceTokenStatsAndWrite ==
    /\ main_pc = "scanned"
    /\ IF puml_file.exists
       THEN LET r == replace_block(puml_file.text, TOKEN_STATS, TOKEN_STATS_END,
                                   Join(token_lines, NL))
            IN  IF r.ok
                THEN /\ puml_text' = r.text
                     /\ puml_file' = FileOf(r.text)
                     /\ main_pc' = "spliced1"
                     /\ UNCHANGED main_err
                ELSE /\ main_pc' = "failed"
                     /\ main_err' = r.err
                     /\ puml_text' = puml_file.text
                     /\ UNCHANGED puml_file
       ELSE /\ main_pc' = "failed"
            /\ main_err' = ErrNoFile
            /\ UNCHANGED <<puml_text, puml_file>>
    /\ UNCHANGED <<tokens_file, output_file, stats, token_lines,
                   precedence_lines, runs, written>>
    /\ UNCHANGED notMain

\* lines 194-200: PUML is read and the token-stats region is spliced
MainSpliceTokenStats ==
    /\ main_pc = "scanned"
    /\ IF puml_file.exists
       THEN LET r == replace_block(puml_file.text, TOKEN_STATS, TOKEN_STATS_END,
                                   Join(token_lines, NL))
            IN  IF r.ok
                THEN /\ puml_text' = r.text
                     /\ main_pc' = "spliced1"
                     /\ UNCHANGED main_err
                ELSE /\ main_pc' = "failed"
                     /\ main_err' = r.err
                     /\ puml_text' = puml_file.text
       ELSE /\ main_pc' = "failed"
            /\ main_err' = ErrNoFile
            /\ UNCHANGED puml_text
    /\ UNCHANGED <<tokens_file, puml_file, output_file, stats, token_lines,
                   precedence_lines, runs, written>>
    /\ UNCHANGED notMain

\* MainSplicePrecedence with the report written right after the splice
MainSplicePrecedenceWritesReport ==
    /\ main_pc = "spliced1"
    /\ LET r == replace_block(puml_text, PRECEDENCE_TABLE, PRECEDENCE_TABLE_END,
                              Join(precedence_lines, NL))
       IN  IF r.ok
           THEN /\ puml_text' = r.text
                /\ output_file' = FileOf(ReportText(stats, precedence_lines))
                /\ main_pc' = "spliced2"
                /\ UNCHANGED main_err
           ELSE /\ main_pc' = "failed"
                /\ main_err' = r.err
                /\ UNCHANGED <<puml_text, output_file>>
    /\ UNCHANGED <<tokens_file, puml_file, stats, token_lines,
                   precedence_lines, runs, written>>
    /\ UNCHANGED notMain

\* lines 201-206: the precedence-table region is spliced
MainSplicePrecedence ==
    /\ main_pc = "spliced1"
    /\ LET r == replace_block(puml_text, PRECEDENCE_TABLE, PRECEDENCE_TABLE_END,
                              Join(precedence_lines, NL))
       IN  IF r.ok
           THEN /\ puml_text' = r.text
                /\ main_pc' = "spliced2"
                /\ UNCHANGED main_err
           ELSE /\ main_pc' = "failed"
                /\ main_err' = r.err
                /\ UNCHANGED puml_text
    /\ UNCHANGED <<tokens_file, puml_file, output_file, stats, token_lines,
                   precedence_lines, runs, written>>
    /\ UNCHANGED notMain

\* line 207
MainWritePuml ==
    /\ main_pc = "spliced2"
    /\ puml_file' = FileOf(puml_text)
    /\ written' = Append(written, "PUML")
    /\ main_pc' = "puml_written"
    /\ UNCHANGED <<tokens_file, output_file, main_err, stats, token_lines,
                   precedence_lines, puml_text, runs>>
    /\ UNCHANGED notMain

\* lines 209-234, when creating the directory or writing the file raises
MainWriteOutputFails ==
    /\ main_pc = "puml_written"
    /\ main_pc' = "failed"
    /\ main_err' = ErrWrite
    /\ UNCHANGED <<tokens_file, puml_file, output_file, stats, token_lines,
                   precedence_lines, puml_text, runs, written>>
    /\ UNCHANGED notMain

\* lines 209-234
MainWriteOutput ==
    /\ main_pc = "puml_written"
    /\ output_file' = FileOf(ReportText(stats, precedence_lines))
    /\ written' = Append(written, "OUTPUT")
    /\ main_pc' = "done"
    /\ runs' = runs + 1
    /\ UNCHANGED <<tokens_file, puml_file, main_err, stats, token_lines,
                   precedence_lines, puml_text>>
    /\ UNCHANGED notMain

\* the tool is run again after a run that completed
MainRerun ==
    /\ main_pc = "done"
    /\ runs < MaxRuns
    /\ main_pc' = "start"
    /\ stats' = NoStats
    /\ token_lines' = <<>>
    /\ precedence_lines' = <<>>
    /\ puml_text' = <<>>
    /\ written' = <<>>
    /\ UNCHANGED <<tokens_file, puml_file, output_file, main_err, runs>>
    /\ UNCHANGED notMain

MainNext ==
    \/ MainScan
    \/ MainSpliceTokenStats
    \/ MainSplicePrecedence
    \/ MainWritePuml
    \/ MainWriteOutput
    \/ MainWriteOutputFails
    \/ MainRerun

SpecMain == MainInit /\ [][MainNext]_vars

\* ------------------------------------------------------------------------
\* The drift checker and the changes made to the diagram files between its
\* runs
\* ------------------------------------------------------------------------
\* the sets of diagram files: some of the paths, each with a content
DiagramSets == UNION {[D -> Contents] : D \in SUBSET DiagramPaths}

DriftInit ==
    /\ diagrams \in DiagramSets
    /\ manifest_file \in
          {NoFile} \cup {FileOf(JsonDumps(compute_manifest(d))) : d \in DiagramSets}
    /\ drift_last = NoRun
    /\ regenerated = FALSE
    /\ tkIdle
    /\ bpIdle
    /\ rbIdle
    /\ mainIdle

\* a run without --update, lines 30-33 and 38-57
DriftCheck ==
    /\ drift_last' = RanCheck(CheckCode(manifest_file, compute_manifest(diagrams)))
    /\ UNCHANGED <<diagrams, manifest_file, regenerated>>
    /\ UNCHANGED notDrift

\* a run with --update, lines 30-36
DriftUpdate ==
    /\ manifest_file' = FileOf(JsonDumps(compute_manifest(diagrams)))
    /\ drift_last' = RanUpdate
    /\ regenerated' = FALSE
    /\ UNCHANGED diagrams
    /\ UNCHANGED notDrift

\* a diagram is regenerated (update_syntax_pipeline.py writes PUML) and its
\* content changes
Regenerate ==
    \E p \in DOMAIN diagrams, c \in Contents :
        /\ c # diagrams[p]
        /\ diagrams' = [diagrams EXCEPT ![p] = c]
        /\ regenerated' = TRUE
        /\ drift_last' = NoRun
        /\ UNCHANGED manifest_file
        /\ UNCHANGED notDrift

\* a diagram file is added to the tree
AddDiagram ==
    \E p \in DiagramPaths \ DOMAIN diagrams, c \in Contents :
        /\ diagrams' = [q \in DOMAIN diagrams \cup {p} |-> IF q = p THEN c ELSE diagrams[q]]
        /\ drift_last' = NoRun
        /\ UNCHANGED <<manifest_file, regenerated>>
        /\ UNCHANGED notDrift

\* a diagram file is removed from the tree
RemoveDiagram ==
    \E p \in DOMAIN diagrams :
        /\ diagrams' = [q \in DOMAIN diagrams \ {p} |-> diagrams[q]]
        /\ drift_last' = NoRun
        /\ UNCHANGED <<manifest_file, regenerated>>
        /\ UNCHANGED notDrift

DriftNext ==
    \/ DriftCheck
    \/ DriftUpdate
    \/ Regenerate
    \/ AddDiagram
    \/ RemoveDiagram

SpecDrift == DriftInit /\ [][DriftNext]_vars

\* ------------------------------------------------------------------------
\* Properties of the token taxonomy scanner
\* ------------------------------------------------------------------------
\* line j lies inside the enumeration: after the first declaration line and
\* with no closing-brace line from there up to and including j
InsideEnum(lines, j) ==
    \E d \in 1..(j - 1) :
        /\ IsEnumDecl(lines[d])
        /\ \A e \in 1..(d - 1) : ~IsEnumDecl(lines[e])
        /\ \A k \in (d + 1)..j : ~StartsWithBrace(lines[k])

\* line j is counted as a variant
CountedVariant(lines, j) ==
    InsideEnum(lines, j) /\ ~HasToken(lines[j]) /\ HasVariant(lines[j])

\* a section header has been scanned by the time line j is counted
SectionActiveAt(lines, j) ==
    \E k \in 1..j :
        /\ InsideEnum(lines, k)
        /\ HasHeader(lines[k])
        /\ HeaderSection(lines[k].header) # None

\* line k carries the literal that is attached to the variant of line j
AttachedFrom(lines, k, j) ==
    /\ k < j
    /\ InsideEnum(lines, k)
    /\ HasToken(lines[k])
    /\ \A m \in (k + 1)..(j - 1) : ~HasToken(lines[m]) /\ ~CountedVariant(lines, m)

\* the literals attached to variants whose identifier begins with Kw
KwLiteralsOf(lines) ==
    {lines[k].lit : k \in {k \in 1..Len(lines) :
        \E j \in 1..Len(lines) :
            /\ CountedVariant(lines, j)
            /\ StartsWith(lines[j].name, KwPrefix)
            /\ AttachedFrom(lines, k, j)}}

RECURSIVE SumOver(_, _)
SumOver(f, S) ==
    IF S = {} THEN 0
    ELSE LET x == CHOOSE y \in S : TRUE IN f[x] + SumOver(f, S \ {x})

SumSections(by_section) == SumOver(by_section, DOMAIN by_section)

\* C5: after any number of scanned lines the sum of the per-section counts
\* is at most the total, and the two are equal exactly when every counted
\* variant line was scanned while a section was active; the same holds of
\* the returned TokenStats.
C5_SectionSumAtMostTotal ==
    LET allSectioned ==
            \A j \in 1..tk_i : CountedVariant(tk_lines, j) => SectionActiveAt(tk_lines, j)
    IN  /\ SumSections(tk.by_section) <= tk.total
        /\ (SumSections(tk.by_section) = tk.total) <=> allSectioned
        /\ tk_pc = "returned" =>
              /\ SumSections(tk_stats.by_section) <= tk_stats.total
              /\ (SumSections(tk_stats.by_section) = tk_stats.total) <=> allSectioned

\* a variant was counted before any section header and another one after
C5_Witness ==
    /\ tk_pc = "returned"
    /\ SumSections(tk_stats.by_section) > 0
    /\ SumSections(tk_stats.by_section) < tk_stats.total

\* C6: the returned keyword list is sorted ascending without duplicates and
\* holds exactly the literals attached to variants whose identifier begins
\* with Kw, in whatever order the variants were declared.
C6_KeywordsSortedUnique ==
    tk_pc = "returned" =>
        LET kws == tk_stats.keywords
        IN  /\ \A i \in 1..(Len(kws) - 1) : StrLess(kws[i], kws[i + 1])
            /\ {kws[i] : i \in 1..Len(kws)} = KwLiteralsOf(tk_lines)

\* two keyword variants were declared with their literals in descending order
C6_Witness ==
    /\ tk_pc = "returned"
    /\ Len(tk.keyword_literals) = 2
    /\ StrLess(tk.keyword_literals[2], tk.keyword_literals[1])
    /\ Len(tk_stats.keywords) = 2

\* the variant lines among the first n lines that lie inside the enumeration
CountedUpTo(lines, n) == {j \in 1..n : CountedVariant(lines, j)}

\* C12: a scanned line that is not inside the enumeration (a line before
\* the first declaration line, the declaration line itself, the first
\* closing-brace line after it) changes neither the total, the section
\* counts, the literal map nor the keyword literals; and the returned total
\* counts the variant lines inside the enumeration only, whatever follows
\* the closing brace, a further declaration line included.
C12_OnlyInsideEnum ==
    [][ /\ (tk_i' = tk_i + 1 /\ ~InsideEnum(tk_lines, tk_i + 1)) =>
              /\ tk'.total = tk.total
              /\ tk'.by_section = tk.by_section
              /\ tk'.variant_to_literal = tk.variant_to_literal
              /\ tk'.keyword_literals = tk.keyword_literals
        /\ tk_pc' = "returned" =>
              /\ tk_stats'.total = Cardinality(CountedUpTo(tk_lines, Len(tk_lines)))
              /\ tk_stats'.by_section = tk.by_section
              /\ tk_stats'.variant_to_literal = tk.variant_to_literal
              /\ DOMAIN tk_stats'.variant_to_literal \subseteq
                    {tk_lines[j].name : j \in CountedUpTo(tk_lines, Len(tk_lines))}
    ]_vars

\* a file with a variant line before the declaration and a second
\* declaration followed by a variant line after the closing brace was
\* scanned, and only the variants in between were counted
C12_Witness ==
    /\ tk_pc = "returned"
    /\ tk.broke
    /\ Len(tk_lines) >= 6
    /\ HasVariant(tk_lines[3])
    /\ ~InsideEnum(tk_lines, 3)
    /\ IsEnumDecl(tk_lines[Len(tk_lines) - 1])
    /\ HasVariant(tk_lines[Len(tk_lines)])
    /\ tk_i = Len(tk_lines) - 2
    /\ tk_stats.total = 2
    /\ DOMAIN tk_stats.variant_to_literal # {}

\* line k is a section header line: inside the enumeration, with a header
\* comment that contains a section keyword
IsSectionHeader(lines, k) ==
    /\ InsideEnum(lines, k)
    /\ HasHeader(lines[k])
    /\ \E i \in 1..Len(SECTION_KEYS) : KeyInHeader(SECTION_KEYS[i], lines[k].header)

\* the section named by the most recent section header line among the first
\* n lines; None if there is none
SectionAt(lines, n) ==
    LET hs == {k \in 1..n : IsSectionHeader(lines, k)}
    IN  IF hs = {} THEN None
        ELSE HeaderSection(lines[CHOOSE k \in hs : \A h \in hs : h <= k].header)

\* C13: section attribution is sticky: after any number of scanned lines
\* the current section is the one named by the most recent section header
\* line, header comments without a section keyword leaving it as it is, and
\* the count of a section is the number of variant lines counted while that
\* section was the current one.
C13_StickySection ==
    /\ tk.section = SectionAt(tk_lines, tk_i)
    /\ \A sec \in SectionNames :
          tk.by_section[sec] =
              Cardinality({j \in CountedUpTo(tk_lines, tk_i) : SectionAt(tk_lines, j) = sec})
    /\ tk_pc = "returned" => tk_stats.by_section = tk.by_section

\* after a TRIVIA header the KEYWORDS header changed the section, and a
\* variant that follows a header comment without a keyword was counted
\* under Keywords
C13_Witness ==
    /\ tk_pc = "returned"
    /\ tk_stats.by_section["Keywords"] = 1
    /\ tk_stats.by_section["Trivia"] = 0
    /\ \E t, k, m, j \in 1..tk_i :
          /\ t < k /\ k < m /\ m < j
          /\ IsSectionHeader(tk_lines, t) /\ HeaderSection(tk_lines[t].header) = "Trivia"
          /\ IsSectionHeader(tk_lines, k) /\ HeaderSection(tk_lines[k].header) = "Keywords"
          /\ HasHeader(tk_lines[m]) /\ HeaderSection(tk_lines[m].header) = None
          /\ CountedVariant(tk_lines, j)

\* the annotation lines among the first n lines whose literal no variant
\* line has taken yet
PendingFrom(lines, n) ==
    {k \in 1..n : /\ InsideEnum(lines, k)
                  /\ HasToken(lines[k])
                  /\ \A m \in (k + 1)..n : ~HasToken(lines[m]) /\ ~CountedVariant(lines, m)}

\* the variant lines among the first n lines that were given a literal
WithLiteral(lines, n) ==
    {j \in CountedUpTo(lines, n) : \E k \in 1..j : AttachedFrom(lines, k, j)}

\* the literal given to the variant of line j
LiteralOf(lines, j) == lines[CHOOSE k \in 1..j : AttachedFrom(lines, k, j)].lit

\* C14: pending-literal protocol.  A line with an exact-text annotation is
\* never counted as a variant; after any number of scanned lines the pending
\* literal is that of the most recent annotation line if no variant line has
\* followed it, whatever other lines have, and there is none otherwise; the
\* literal map holds, for every identifier, the literal that was pending
\* when its variant line was counted, and nothing for a variant counted
\* while none was pending.
C14_PendingLiteral ==
    /\ tk.total = Cardinality(CountedUpTo(tk_lines, tk_i))
    /\ \A j \in 1..tk_i : HasToken(tk_lines[j]) => ~CountedVariant(tk_lines, j)
    /\ IF PendingFrom(tk_lines, tk_i) = {}
       THEN tk.pending_literal = NoLiteral
       ELSE \A k \in PendingFrom(tk_lines, tk_i) : tk.pending_literal = tk_lines[k].lit
    /\ DOMAIN tk.variant_to_literal =
          {tk_lines[j].name : j \in WithLiteral(tk_lines, tk_i)}
    /\ \A j \in WithLiteral(tk_lines, tk_i) :
          (\A j2 \in WithLiteral(tk_lines, tk_i) :
              tk_lines[j2].name = tk_lines[j].name => j2 <= j)
          => tk.variant_to_literal[tk_lines[j].name] = LiteralOf(tk_lines, j)

\* a literal stayed pending across a comment line, was attached to the
\* variant after it, and the next variant got none
C14_Witness ==
    /\ tk_pc = "returned"
    /\ \E k, m, j, j2 \in 1..tk_i :
          /\ k < m /\ m < j /\ j < j2
          /\ ~HasVariant(tk_lines[m])
          /\ AttachedFrom(tk_lines, k, j)
          /\ CountedVariant(tk_lines, j)
          /\ tk_stats.variant_to_literal[tk_lines[j].name] = tk_lines[k].lit
          /\ CountedVariant(tk_lines, j2)
          /\ tk_lines[j2].name \notin DOMAIN tk_stats.variant_to_literal

\* ------------------------------------------------------------------------
\* Properties of the precedence table scanner
\* ------------------------------------------------------------------------
EndsWithRightAssoc(line) == line # <<>> /\ line[Len(line)] = RightAssoc

\* the entries whose left binding power is v, in their order
WithLeft(entries, v) == SelectSeq(entries, LAMBDA e : e[1] = v)

\* C7: a rendered infix line ends with " (right assoc)" iff the left binding
\* power of its entry is strictly greater than the right one; the header
\* line and the prefix lines never carry the annotation.
C7_RightAssocIffLeftGreater ==
    bp_pc = "returned" =>
        /\ Len(infix_lines) = Len(bp.infix_entries) + 1
        /\ ~EndsWithRightAssoc(infix_lines[1])
        /\ \A k \in 1..Len(bp.infix_entries) :
              LET e == bp.infix_entries[k]
                  line == infix_lines[k + 1]
              IN  /\ line[1] = ToString(e[1])
                  /\ line[3] = ToString(e[2])
                  /\ EndsWithRightAssoc(line) <=> e[1] > e[2]
        /\ \A k \in 1..Len(prefix_lines) : ~EndsWithRightAssoc(prefix_lines[k])

\* entries with left > right, left = right and left < right were rendered
C7_Witness ==
    /\ bp_pc = "returned"
    /\ \E k \in 1..Len(bp.infix_entries) :
          bp.infix_entries[k][1] > bp.infix_entries[k][2]
          /\ EndsWithRightAssoc(infix_lines[k + 1])
    /\ \E k \in 1..Len(bp.infix_entries) :
          bp.infix_entries[k][1] = bp.infix_entries[k][2]
    /\ \E k \in 1..Len(bp.infix_entries) :
          bp.infix_entries[k][1] < bp.infix_entries[k][2]

\* C8: the step that renders the scanned entries puts the infix lines in
\* ascending order of left binding power whatever the scan order was, keeps
\* the scan order among entries with the same left binding power, and puts
\* every prefix line after all infix lines, in scan order.
C8_SortedStableInfixThenPrefix ==
    [][(bp_pc = "scan" /\ bp_pc' = "returned") =>
        LET scanned == bp.infix_entries
            sorted  == bp'.infix_entries
            pre     == bp.prefix_entries
            all     == PrecedenceLines(infix_lines', prefix_lines')
        IN  /\ Len(sorted) = Len(scanned)
            /\ \A i, j \in 1..Len(sorted) : i < j => sorted[i][1] <= sorted[j][1]
            /\ \A k \in 1..Len(scanned) :
                  WithLeft(sorted, scanned[k][1]) = WithLeft(scanned, scanned[k][1])
            /\ Len(all) = 1 + Len(scanned) + Len(pre)
            /\ all[1] = PrecedenceHeader
            /\ \A k \in 1..Len(sorted) : all[1 + k] = RenderInfix(bp_v2l, sorted[k])
            /\ \A k \in 1..Len(pre) :
                  all[1 + Len(sorted) + k] = RenderPrefix(bp_v2l, pre[k])
    ]_vars

\* three infix arms were scanned out of order, two of them with the same
\* left binding power, and rendered
C8_Witness ==
    /\ bp_pc = "returned"
    /\ Len(bp.infix_entries) = 3
    /\ BpLoop(BpStart, bp_lines).infix_entries # bp.infix_entries
    /\ \E i, j \in 1..3 : i < j /\ bp.infix_entries[i][1] = bp.infix_entries[j][1]

\* the label the rule gives an identifier: (1) its literal, (2) the rest of
\* a Kw identifier in upper case, (3) the identifier itself
IsLabelOf(lab, v2l, name) ==
    /\ name \in DOMAIN v2l => lab = v2l[name]
    /\ (name \notin DOMAIN v2l /\ StartsWith(name, KwPrefix)) =>
          /\ Len(lab) = Len(name) - 2
          /\ \A i \in 1..Len(lab) : lab[i] = UpperChar(name[i + 2])
    /\ (name \notin DOMAIN v2l /\ ~StartsWith(name, KwPrefix)) => lab = name

\* the labels of the names of an entry, joined as they are rendered
LabelsOf(v2l, names) ==
    Join([i \in 1..Len(names) |-> display(v2l, names[i])], ", ")

\* the names of all the entries
NamesOf(st) ==
    UNION ( {{e[3][i] : i \in 1..Len(e[3])} :
                e \in {st.infix_entries[k] : k \in 1..Len(st.infix_entries)}}
            \cup
            {{e[2][i] : i \in 1..Len(e[2])} :
                e \in {st.prefix_entries[k] : k \in 1..Len(st.prefix_entries)}} )

\* C11: the label rendered for a variant identifier is its literal if the
\* identifier is a key of the literal map, also when it begins with Kw;
\* otherwise the rest of the identifier in upper case if it begins with Kw;
\* otherwise the identifier unchanged.  It is the same in infix and prefix
\* lines: it depends on the identifier and the literal map only.
C11_DisplayLabel ==
    bp_pc = "returned" =>
        /\ \A n \in NamesOf(bp) : IsLabelOf(display(bp_v2l, n), bp_v2l, n)
        /\ \A k \in 1..Len(bp.infix_entries) :
              LET e == bp.infix_entries[k]
              IN  SubSeq(infix_lines[k + 1], 5, 4 + Len(LabelsOf(bp_v2l, e[3])))
                      = LabelsOf(bp_v2l, e[3])
        /\ \A k \in 1..Len(bp.prefix_entries) :
              LET e == bp.prefix_entries[k]
              IN  SubSeq(prefix_lines[k], 3, Len(prefix_lines[k])) = LabelsOf(bp_v2l, e[2])

\* KwOr was rendered by its literal, KwNot as NOT and Minus unchanged
C11_Witness ==
    /\ bp_pc = "returned"
    /\ KwOr \in DOMAIN bp_v2l
    /\ {KwOr, KwNot, Minus} \subseteq NamesOf(bp)
    /\ display(bp_v2l, KwOr) = LitOr
    /\ display(bp_v2l, KwNot) = <<"N", "O", "T">>
    /\ display(bp_v2l, Minus) = Minus

\* line k is one of the two marker lines
IsFnLine(line) == HasInfixFn(line) \/ HasPrefixFn(line)

\* C15: after every scanned line the scanner is in exactly one of the modes
\* neither, infix, prefix, in whatever order the marker lines occur: the
\* flags in_infix and in_prefix are never both set, the line of the prefix
\* marker leaves infix mode, and no entry is recorded before the first
\* marker line.
C15_ExclusiveModes ==
    /\ ~(bp.in_infix /\ bp.in_prefix)
    /\ (bp_i >= 1 /\ HasPrefixFn(bp_lines[bp_i]) /\ ~HasInfixFn(bp_lines[bp_i])) =>
          (~bp.in_infix /\ bp.in_prefix)
    /\ (\A k \in 1..bp_i : ~IsFnLine(bp_lines[k])) =>
          (bp.infix_entries = <<>> /\ bp.prefix_entries = <<>>)

\* the line is a wildcard (catch-all) arm: its pattern is _ alone
IsWildcardArm(line) == HasArrow(line) /\ line.alts = <<Bare(Wild)>>

\* the flags the scanner has when it takes line k
ModeBefore(lines, k) == BpLoop(BpStart, SubSeq(lines, 1, k - 1))

\* the arms among the first n lines that are not wildcard arms and carry a
\* well-formed binding power for the mode they are scanned in
InfixArms(lines, n) ==
    {k \in 1..n : /\ HasArrow(lines[k]) /\ ~IsWildcardArm(lines[k])
                  /\ ModeBefore(lines, k).in_infix
                  /\ HasPair(lines[k])}

PrefixArms(lines, n) ==
    {k \in 1..n : /\ HasArrow(lines[k]) /\ ~IsWildcardArm(lines[k])
                  /\ ~ModeBefore(lines, k).in_infix /\ ModeBefore(lines, k).in_prefix
                  /\ HasIntAfterArrow(lines[k])}

\* C16: no entry comes from a wildcard arm, in infix or in prefix mode and
\* whatever its right-hand side is, and every arm that is not a wildcard arm
\* and carries a well-formed binding-power value has its entry: the wildcard
\* skip drops none of them.
C16_WildcardArmsOnly ==
    /\ \A k \in 1..Len(bp.infix_entries) : bp.infix_entries[k][3] # <<Wild>>
    /\ \A k \in 1..Len(bp.prefix_entries) : bp.prefix_entries[k][2] # <<Wild>>
    /\ Len(bp.infix_entries) = Cardinality(InfixArms(bp_lines, bp_i))
    /\ Len(bp.prefix_entries) = Cardinality(PrefixArms(bp_lines, bp_i))

\* the arm lines among the first n lines that the scanner accepts in infix
\* mode and in prefix mode: past the wildcard skip, with the numeric capture
AcceptedInfix(lines, n) ==
    {k \in 1..n : /\ HasArrow(lines[k]) /\ ~HasWildArrow(lines[k])
                  /\ ModeBefore(lines, k).in_infix
                  /\ HasPair(lines[k])}

AcceptedPrefix(lines, n) ==
    {k \in 1..n : /\ HasArrow(lines[k]) /\ ~HasWildArrow(lines[k])
                  /\ ~ModeBefore(lines, k).in_infix /\ ModeBefore(lines, k).in_prefix
                  /\ HasIntAfterArrow(lines[k])}

\* the members of a set of line numbers in ascending order
Ascending(S) ==
    [i \in 1..Cardinality(S) |-> CHOOSE k \in S : Cardinality({m \in S : m <= k}) = i]

\* names holds the variant names of the alternation of the line, all of
\* them, in order, without the qualifier
HoldsNamesOf(names, line) ==
    /\ Len(names) = Len(line.alts)
    /\ \A j \in 1..Len(names) : names[j] = line.alts[j].name

\* C17: in scan order the entries are those of the accepted arm lines, one
\* entry for each line with its binding power and all the variant names of
\* its alternation, qualifier stripped; a line without the numeric capture
\* of the mode it is scanned in adds nothing and leaves the entries of the
\* other lines as they are, and the scan goes on to the end of the file.
C17_OneEntryPerArm ==
    LET inf == Ascending(AcceptedInfix(bp_lines, bp_i))
        pre == Ascending(AcceptedPrefix(bp_lines, bp_i))
    IN  /\ Len(bp.infix_entries) = Len(inf)
        /\ Len(bp.prefix_entries) = Len(pre)
        /\ bp_pc = "scan" =>
              \A i \in 1..Len(inf) :
                  /\ bp.infix_entries[i][1] = bp_lines[inf[i]].rhs.a
                  /\ bp.infix_entries[i][2] = bp_lines[inf[i]].rhs.b
                  /\ HoldsNamesOf(bp.infix_entries[i][3], bp_lines[inf[i]])
        /\ \A i \in 1..Len(pre) :
              /\ bp.prefix_entries[i][1] = bp_lines[pre[i]].rhs.a
              /\ HoldsNamesOf(bp.prefix_entries[i][2], bp_lines[pre[i]])
        /\ bp_pc = "returned" => bp_i = Len(bp_lines)

\* in infix mode an arm with two names gave one entry, the arm after it,
\* which has no pair, was skipped, and the arm after that gave the second
\* entry
C17_Witness ==
    /\ bp_pc = "scan"
    /\ bp_i = 4
    /\ Len(bp.infix_entries) = 2
    /\ Len(bp.infix_entries[1][3]) = 2
    /\ AcceptedInfix(bp_lines, 4) = {2, 4}
    /\ HasArrow(bp_lines[3]) /\ ~HasWildArrow(bp_lines[3]) /\ ~HasPair(bp_lines[3])

\* ------------------------------------------------------------------------
\* Properties of the block splicer
\* ------------------------------------------------------------------------
RECURSIVE SplitOn(_, _)
\* the lines of a document: the text cut at every line terminator
SplitOn(t, sep) ==
    IF \E i \in 1..Len(t) : t[i] = sep
    THEN LET i == CHOOSE j \in 1..Len(t) :
                      t[j] = sep /\ \A k \in 1..(j - 1) : t[k] # sep
         IN  <<SubSeq(t, 1, i - 1)>> \o SplitOn(SubSeq(t, i + 1, Len(t)), sep)
    ELSE <<t>>

\* the line is the marker, with nothing but horizontal white space around it
IsMarkerLine(line, marker) == SelectSeq(line, LAMBDA c : c # SP) = <<marker>>

HasMarkerLine(text, marker) ==
    \E i \in 1..Len(SplitOn(text, NL)) : IsMarkerLine(SplitOn(text, NL)[i], marker)

\* the indices of the marker lines of a document
MarkerLinesOf(text, marker) ==
    {i \in 1..Len(SplitOn(text, NL)) : IsMarkerLine(SplitOn(text, NL)[i], marker)}

\* some start marker line is followed, further down, by an end marker line
StartThenEnd(text, start_marker, end_marker) ==
    LET ls == SplitOn(text, NL)
    IN  \E i, j \in 1..Len(ls) :
            i < j /\ IsMarkerLine(ls[i], start_marker) /\ IsMarkerLine(ls[j], end_marker)

\* the leading white space of the first marker line of the text
OwnLineIndent(text, marker) ==
    LET ls == SplitOn(text, NL)
        i  == CHOOSE j \in 1..Len(ls) :
                  IsMarkerLine(ls[j], marker)
                  /\ \A k \in 1..(j - 1) : ~IsMarkerLine(ls[k], marker)
        n  == CHOOSE k \in 1..Len(ls[i]) : ls[i][k] = marker
    IN  SubSeq(ls[i], 1, n - 1)

\* C1: replace_block is idempotent: whenever it succeeds, applying it again
\* to its output with the same markers and the same replacement succeeds and
\* returns the identical document.
C1_SpliceIdempotent ==
    Len(rb_out) = 2 => rb_out[2].ok /\ rb_out[2].text = rb_out[1].text

\* C3: replace_block fails with the marker-order error whenever both markers
\* are present but no end marker line follows a start marker line, and it
\* succeeds whenever a start marker line is followed later by an end marker
\* line.
C3_MarkerOrder ==
    Len(rb_out) >= 1 =>
        /\ ( /\ HasMarkerLine(rb_text, TOKEN_STATS)
             /\ HasMarkerLine(rb_text, TOKEN_STATS_END)
             /\ ~StartThenEnd(rb_text, TOKEN_STATS, TOKEN_STATS_END) )
           => (~rb_out[1].ok /\ rb_out[1].err = ErrOrder)
        /\ StartThenEnd(rb_text, TOKEN_STATS, TOKEN_STATS_END) => rb_out[1].ok

\* C9: in the output of replace_block every line of the replacement is
\* prefixed with exactly the leading indentation of the start marker's own
\* line, and a blank replacement line becomes that indentation alone,
\* whatever lines precede the start marker line.
C9_IndentOfMarkerLine ==
    (Len(rb_out) >= 1 /\ rb_out[1].ok) =>
        LET sm  == MarkerSearch(rb_text, TOKEN_STATS)
            em  == MarkerSearch(rb_text, TOKEN_STATS_END)
            out == rb_out[1].text
            ind == OwnLineIndent(rb_text, TOKEN_STATS)
            ls  == SplitLines(rb_replacement)
            injected == SubSeq(out, sm.end + 2,
                               Len(out) - (Len(rb_text) - em.start) - 1)
        IN  injected = Join([i \in 1..Len(ls) |-> ind \o ls[i]], NL)

\* the number of the first marker line of the text
FirstMarkerLine(text, marker) ==
    CHOOSE i \in MarkerLinesOf(text, marker) : \A k \in MarkerLinesOf(text, marker) : i <= k

\* C18: replace_block changes only the region between the two markers: its
\* output is the lines of the text up to and including the start marker
\* line, a newline, the re-indented replacement, a newline, and the lines
\* of the text from the end marker line on; what precedes the start marker
\* line and what follows from the end marker line is kept as it is (which
\* is what keeps the region of an earlier splice when the regions are
\* disjoint).
C18_OnlyRegionChanges ==
    (Len(rb_out) >= 1 /\ rb_out[1].ok) =>
        LET ls  == SplitOn(rb_text, NL)
            i   == FirstMarkerLine(rb_text, TOKEN_STATS)
            j   == FirstMarkerLine(rb_text, TOKEN_STATS_END)
            ind == MarkerSearch(rb_text, TOKEN_STATS).indent
        IN  rb_out[1].text =
                Join(SubSeq(ls, 1, i), NL)
                \o <<NL>> \o Reindent(ind, rb_replacement) \o <<NL>>
                \o Join(SubSeq(ls, j, Len(ls)), NL)

\* ------------------------------------------------------------------------
\* Properties of a run of main
\* ------------------------------------------------------------------------
Markers == {TOKEN_STATS, TOKEN_STATS_END, PRECEDENCE_TABLE, PRECEDENCE_TABLE_END}

AnyMarkerAbsent(text) == \E m \in Markers : ~HasMarkerLine(text, m)

\* the DiagramDocument of the data model: one line for each of the four
\* markers, each start before its end, the two regions apart
WellFormedDiagram(text) ==
    /\ \A m \in Markers : Cardinality(MarkerLinesOf(text, m)) = 1
    /\ LET at(m) == CHOOSE i \in MarkerLinesOf(text, m) : TRUE
       IN  /\ at(TOKEN_STATS) < at(TOKEN_STATS_END)
           /\ at(PRECEDENCE_TABLE) < at(PRECEDENCE_TABLE_END)
           /\ \/ at(TOKEN_STATS_END) < at(PRECEDENCE_TABLE)
              \/ at(PRECEDENCE_TABLE_END) < at(TOKEN_STATS)

\* C2: when one of the four marker lines is absent from the diagram file a
\* run starts on, no step of the run writes the diagram file or the report
\* file and the run ends with a failure: it never gets past the splices,
\* and after a successful first splice the second one fails.
C2_MissingMarkerWritesNothing ==
    [][( /\ main_pc \in {"start", "scanned", "spliced1"}
         /\ puml_file.exists
         /\ AnyMarkerAbsent(puml_file.text) ) =>
        /\ puml_file' = puml_file
        /\ output_file' = output_file
        /\ main_pc = "start" => main_pc' \in {"scanned", "failed"}
        /\ main_pc = "scanned" => main_pc' \in {"spliced1", "failed"}
        /\ main_pc = "spliced1" => main_pc' = "failed" /\ main_err' \in {ErrStart, ErrEnd}
    ]_vars

\* the first splice succeeded and the run failed on the missing end marker
\* of the precedence-table region
C2_Witness ==
    /\ main_pc = "failed"
    /\ main_err = ErrEnd
    /\ puml_file.exists
    /\ HasMarkerLine(puml_file.text, TOKEN_STATS)
    /\ HasMarkerLine(puml_file.text, TOKEN_STATS_END)
    /\ HasMarkerLine(puml_file.text, PRECEDENCE_TABLE)
    /\ ~HasMarkerLine(puml_file.text, PRECEDENCE_TABLE_END)
    /\ puml_text # puml_file.text
    /\ ~output_file.exists

\* C4: a whole run is idempotent: once a run has completed, a further run
\* on the unchanged token file, started on a diagram that is a well-formed
\* DiagramDocument, does not fail and no step of it changes the diagram
\* file or the report file.
C4_RunIdempotent ==
    [][(runs >= 1 /\ WellFormedDiagram(puml_file.text)) =>
        /\ puml_file' = puml_file
        /\ output_file' = output_file
        /\ main_pc' = "failed" => main_err' = ErrWrite
    ]_vars

\* C19: write ordering of a run.  Nothing is written while the source is
\* scanned and the two regions are spliced; the diagram file is written
\* once, by the step that follows the second successful splice, with the
\* spliced text; the report file is written only by the step after that;
\* a run that has failed has written nothing or the diagram file alone, and
\* its report file is as it was.
C19_WriteOrder ==
    [][ /\ written' \in {<<>>, <<"PUML">>, <<"PUML", "OUTPUT">>}
        /\ main_pc' \in {"scanned", "spliced1", "spliced2"} => written' = <<>>
        /\ (puml_file' # puml_file \/ (written = <<>> /\ written' # <<>>)) =>
              /\ main_pc = "spliced2"
              /\ written = <<>> /\ written' = <<"PUML">>
              /\ puml_file' = FileOf(puml_text)
              /\ output_file' = output_file
        /\ (output_file' # output_file \/ Len(written') = 2) =>
              /\ main_pc = "puml_written" /\ main_pc' = "done"
              /\ written = <<"PUML">> /\ written' = <<"PUML", "OUTPUT">>
              /\ puml_file' = puml_file
        /\ main_pc' = "failed" =>
              /\ written' \in {<<>>, <<"PUML">>}
              /\ output_file' = output_file
              /\ written' = <<>> => puml_file' = puml_file
        /\ tokens_file' = tokens_file
    ]_vars

\* a run failed after it had written the diagram file: the diagram is the
\* spliced text and the report file is not rewritten
C19_Witness ==
    /\ main_pc = "failed"
    /\ written = <<"PUML">>
    /\ puml_file = FileOf(puml_text)
    /\ ~output_file.exists

\* ------------------------------------------------------------------------
\* Properties of the drift checker
\* ------------------------------------------------------------------------
\* what a check reports, for the stored manifest (path -> digest)
MissingFiles(stored, ds) == DOMAIN stored \ DOMAIN ds
AddedFiles(stored, ds)   == DOMAIN ds \ DOMAIN stored
ChangedFiles(stored, ds) ==
    {p \in DOMAIN stored \cap DOMAIN ds : stored[p] # sha256(ds[p])}

InSync(manifest, ds) ==
    /\ manifest.exists
    /\ MissingFiles(JsonLoads(manifest.text), ds) = {}
    /\ AddedFiles(JsonLoads(manifest.text), ds) = {}
    /\ ChangedFiles(JsonLoads(manifest.text), ds) = {}

\* C10 as stated: [...] and after a regeneration that changes the diagram's
\* content every check exits non-zero until update mode is run.
C10_NonZeroUntilUpdate ==
    (drift_last.ran /\ ~drift_last.update /\ regenerated) => drift_last.code # 0

\* C10, amended: a run in check mode changes no file and exits 0 iff the
\* manifest exists and equals the current path-to-hash mapping, non-zero on
\* any missing, added or changed file; a run in update mode rewrites the
\* manifest to the current hashes and exits 0; a check right after an update
\* exits 0; and after a regeneration every check exits non-zero for as long
\* as the manifest differs from the current hashes.
C10_DriftProtocol ==
    [][drift_last'.ran =>
        /\ diagrams' = diagrams
        /\ ~drift_last'.update =>
              /\ manifest_file' = manifest_file
              /\ regenerated' = regenerated
              /\ drift_last'.code = 0 <=>
                    ( manifest_file.exists
                      /\ JsonLoads(manifest_file.text) = compute_manifest(diagrams) )
              /\ drift_last'.code = 0 <=> InSync(manifest_file, diagrams)
              /\ (drift_last.ran /\ drift_last.update) => drift_last'.code = 0
              /\ (regenerated /\ ~InSync(manifest_file, diagrams)) => drift_last'.code # 0
        /\ drift_last'.update =>
              /\ drift_last'.code = 0
              /\ InSync(manifest_file', diagrams)
              /\ ~regenerated'
    ]_vars

\* a check has just exited non-zero after a regeneration that left the
\* diagram different from what the manifest records
C10_Witness ==
    /\ drift_last.ran
    /\ ~drift_last.update
    /\ drift_last.code # 0
    /\ regenerated
    /\ manifest_file.exists
    /\ ChangedFiles(JsonLoads(manifest_file.text), diagrams) # {}
    /\ MissingFiles(JsonLoads(manifest_file.text), diagrams) = {}
    /\ AddedFiles(JsonLoads(manifest_file.text), diagrams) = {}

====
